---- MODULE Spec2Model ----
(***************************************************************************)
(* Model of usbreset.c: main() of the USB device resetter.                 *)
(*                                                                         *)
(* Strings are sequences of tokens.  The characters of argv are tokens of  *)
(* Chars; the literal pieces of a printf format are one token each, and    *)
(* the trailing newline of a format is the token "\n".  The operating      *)
(* system (open, ioctl, close) is the environment: every outcome the       *)
(* system call can produce is chosen nondeterministically.                 *)
(***************************************************************************)
EXTENDS Integers, Sequences, FiniteSets

(* ------------------------------ bounds --------------------------------- *)

\* largest argc tried (argc counts the program name)
MaxArgc == 4

\* longest device path tried, in characters
MaxPathLen == 2

\* largest descriptor number open() may return; 0..2 are the standard streams
MaxFd == 4

(* ------------------------------ inputs --------------------------------- *)

\* characters an argument may be made of; a path may contain a newline
Chars == {"/", "u", "\n"}

Paths == UNION {[1..n -> Chars] : n \in 0..MaxPathLen}

\* values of argv[0]
ProgNames == {<<"u">>, <<"/", "u">>, <<"u", "\n">>}

\* value of the arguments after the first, which main never reads
ExtraArg == <<"u">>

\* argv for a given argc, program name and first argument (1-based here)
MkArgv(n, prog, path) ==
    [i \in 1..n |-> IF i = 1 THEN prog ELSE IF i = 2 THEN path ELSE ExtraArg]

(* ---------------------- the USBDEVFS_RESET macro ----------------------- *)

\* the headers the translation unit includes
Includes ==
    {"stdio.h", "fcntl.h", "sys/ioctl.h", "unistd.h", "errno.h", "string.h"}

\* the literal of the #define inside the #ifndef
USBDEVFS_RESET_LITERAL == 21780

\* the header through which a platform supplies USBDEVFS_RESET: none, the
\* Linux usbfs header, or (a platform whose ioctl header pulls it in)
\* sys/ioctl.h
PlatformHeaders == {"none", "linux/usbdevice_fs.h", "sys/ioctl.h"}

\* values a platform may give the constant
PlatformValues == {21780, 21781}

\* #ifndef USBDEVFS_RESET: the macro is visible at that line only if a header
\* included above it defines it
MacroVisible(hdr) == hdr \in Includes

\* where the request code passed to ioctl comes from
ResetCodeOrigin(hdr) == IF MacroVisible(hdr) THEN "platform" ELSE "literal"

\* the request code passed to ioctl
USBDEVFS_RESET(hdr, val) ==
    IF MacroVisible(hdr) THEN val ELSE USBDEVFS_RESET_LITERAL

(* ------------------------- errno and strerror -------------------------- *)

\* ENOENT, EACCES
OpenErrnos == {2, 13}

\* ENODEV, ENOTTY
IoctlErrnos == {19, 25}

\* EINTR, EIO
CloseErrnos == {4, 5}

strerror(e) ==
    CASE e = 0  -> "Success"
      [] e = 2  -> "No such file or directory"
      [] e = 4  -> "Interrupted system call"
      [] e = 5  -> "Input/output error"
      [] e = 13 -> "Permission denied"
      [] e = 19 -> "No such device"
      [] e = 25 -> "Inappropriate ioctl for device"
      [] OTHER  -> "Unknown error"

(* ----------------------------- messages -------------------------------- *)

UsageMsg_NoNewline(prog) == <<"Usage: ">> \o prog \o <<" <usb_device_path>">>

\* "Usage: %s <usb_device_path>\n"
UsageMsg(prog) == <<"Usage: ">> \o prog \o <<" <usb_device_path>", "\n">>

OpenErrorMsg_NoPath(path, e) ==
    <<"Error opening device ", ": ", strerror(e), "\n">>

\* "Error opening device %s: %s\n"
OpenErrorMsg(path, e) ==
    <<"Error opening device ">> \o path \o <<": ", strerror(e), "\n">>

ResetErrorMsg_NoPath(path, e) ==
    <<"Error resetting device ", ": ", strerror(e), "\n">>

\* "Error resetting device %s: %s\n"
ResetErrorMsg(path, e) ==
    <<"Error resetting device ">> \o path \o <<": ", strerror(e), "\n">>

SuccessMsg_Twice(path) ==
    <<"USB device ">> \o path \o <<" reset successfully", "\n">>
        \o <<"USB device ">> \o path \o <<" reset successfully", "\n">>

\* "USB device %s reset successfully\n"
SuccessMsg(path) == <<"USB device ">> \o path \o <<" reset successfully", "\n">>

(* ------------------------------- state --------------------------------- *)

VARIABLES
    argc, argv,          \* the arguments of main
    hdr, val,            \* the build platform: defining header, value
    pc,                  \* position in main
    device_path, fd, result,   \* the locals of main
    errno,               \* the thread's errno
    handle,              \* the descriptor's state: "none", "open", "closed"
    out, err,            \* what was written to stdout and to stderr
    exit_status,         \* <<>> while running, <<status>> after return
    calls,               \* the system calls and writes made so far, in order
    ioctl_errno          \* the errno the reset ioctl set (history)

vars == <<argc, argv, hdr, val, pc, device_path, fd, result, errno, handle,
          out, err, exit_status, calls, ioctl_errno>>

inputs == <<argc, argv, hdr, val>>

Call(op, f, req, ret) == [op |-> op, fd |-> f, req |-> req, ret |-> ret]

Init ==
    /\ argc \in 1..MaxArgc
    /\ \E prog \in ProgNames, path \in Paths :
          /\ argc = 1 => path = <<>>
          /\ argv = MkArgv(argc, prog, path)
    /\ hdr \in PlatformHeaders
    /\ val \in PlatformValues
    /\ hdr = "none" => val = USBDEVFS_RESET_LITERAL
    /\ pc = "check_args"
    /\ device_path = <<>>
    /\ fd = -1
    /\ result = 0
    /\ errno = 0
    /\ handle = "none"
    /\ out = <<>>
    /\ err = <<>>
    /\ exit_status = <<>>
    /\ calls = <<>>
    /\ ioctl_errno = 0

(* ------------------------------ main ----------------------------------- *)

ArgcWrong_Lax(n) == n < 2

\* if (argc != 2)
ArgcWrong(n) == n # 2

\* if (argc != 2) { fprintf(stderr, usage); return 1; }
\* const char *device_path = argv[1];
CheckArgs ==
    /\ pc = "check_args"
    /\ IF ArgcWrong(argc)
       THEN /\ err' = err \o UsageMsg(argv[1])
            /\ calls' = Append(calls, Call("write", 2, 0, 0))
            /\ exit_status' = <<1>>
            /\ pc' = "done"
            /\ UNCHANGED device_path
       ELSE /\ device_path' = argv[2]
            /\ pc' = "open"
            /\ UNCHANGED <<err, calls, exit_status>>
    /\ UNCHANGED <<inputs, fd, result, errno, handle, out, ioctl_errno>>

\* int fd = open(device_path, O_WRONLY);
\* the empty path never opens (ENOENT); any other path opens or fails
Open ==
    /\ pc = "open"
    /\ \/ /\ device_path # <<>>
          /\ \E f \in 3..MaxFd :
                /\ fd' = f
                /\ calls' = Append(calls, Call("open", f, 0, f))
          /\ handle' = "open"
          /\ UNCHANGED errno
       \/ /\ \E e \in OpenErrnos :
                /\ device_path = <<>> => e = 2
                /\ errno' = e
          /\ fd' = -1
          /\ calls' = Append(calls, Call("open", -1, 0, -1))
          /\ UNCHANGED handle
    /\ pc' = "check_fd"
    /\ UNCHANGED <<inputs, device_path, result, out, err, exit_status,
                   ioctl_errno>>

CheckFd_NotTerminal ==
    /\ pc = "check_fd"
    /\ pc' = "ioctl"
    /\ UNCHANGED <<inputs, device_path, fd, result, errno, handle, out, err,
                   exit_status, calls, ioctl_errno>>

\* if (fd < 0) { fprintf(stderr, "Error opening device ..."); return 1; }
CheckFd ==
    /\ pc = "check_fd"
    /\ IF fd < 0
       THEN /\ err' = err \o OpenErrorMsg(device_path, errno)
            /\ calls' = Append(calls, Call("write", 2, 0, 0))
            /\ exit_status' = <<1>>
            /\ pc' = "done"
       ELSE /\ pc' = "ioctl"
            /\ UNCHANGED <<err, calls, exit_status>>
    /\ UNCHANGED <<inputs, device_path, fd, result, errno, handle, out,
                   ioctl_errno>>

\* int result = ioctl(fd, USBDEVFS_RESET, 0);
Ioctl ==
    /\ pc = "ioctl"
    /\ \/ /\ result' = 0
          /\ UNCHANGED <<errno, ioctl_errno>>
       \/ /\ result' = -1
          /\ \E e \in IoctlErrnos :
                /\ errno' = e
                /\ ioctl_errno' = e
    /\ calls' = Append(calls, Call("ioctl", fd, USBDEVFS_RESET(hdr, val),
                                   result'))
    /\ pc' = "close"
    /\ UNCHANGED <<inputs, device_path, fd, handle, out, err, exit_status>>

Close_OnlyOnSuccess ==
    /\ pc = "close"
    /\ IF result < 0
       THEN UNCHANGED <<handle, calls>>
       ELSE /\ handle' = "closed"
            /\ calls' = Append(calls, Call("close", fd, 0, 0))
    /\ pc' = "check_result"
    /\ UNCHANGED <<inputs, device_path, fd, result, errno, out, err,
                   exit_status, ioctl_errno>>

\* close(fd);  the return value is ignored; a failing close sets errno and
\* still releases the descriptor
Close ==
    /\ pc = "close"
    /\ \/ /\ calls' = Append(calls, Call("close", fd, 0, 0))
          /\ UNCHANGED errno
       \/ /\ calls' = Append(calls, Call("close", fd, 0, -1))
          /\ \E e \in CloseErrnos : errno' = e
    /\ handle' = "closed"
    /\ pc' = "check_result"
    /\ UNCHANGED <<inputs, device_path, fd, result, out, err, exit_status,
                   ioctl_errno>>

ResetFailed_Never(r) == FALSE

\* if (result < 0)
ResetFailed(r) == r < 0

\* if (result < 0) { fprintf(stderr, "Error resetting device ..."); return 1; }
\* printf("USB device %s reset successfully\n", device_path); return 0;
Report ==
    /\ pc = "check_result"
    /\ IF ResetFailed(result)
       THEN /\ err' = err \o ResetErrorMsg(device_path, errno)
            /\ calls' = Append(calls, Call("write", 2, 0, 0))
            /\ exit_status' = <<1>>
            /\ UNCHANGED out
       ELSE /\ out' = out \o SuccessMsg(device_path)
            /\ calls' = Append(calls, Call("write", 1, 0, 0))
            /\ exit_status' = <<0>>
            /\ UNCHANGED err
    /\ pc' = "done"
    /\ UNCHANGED <<inputs, device_path, fd, result, errno, handle,
                   ioctl_errno>>

Next == CheckArgs \/ Open \/ CheckFd \/ Ioctl \/ Close \/ Report

Spec == Init /\ [][Next]_vars

(* ------------------------- observation helpers ------------------------- *)

\* t occurs in s as a contiguous run of tokens
Contains(s, t) ==
    \E i \in 0..(Len(s) - Len(t)) : SubSeq(s, i + 1, i + Len(t)) = t

\* number of newline-terminated lines in s
LineCount(s) == Cardinality({i \in 1..Len(s) : s[i] = "\n"})

\* number of occurrences of the token tok in s
TokenCount(s, tok) == Cardinality({i \in 1..Len(s) : s[i] = tok})

NoNewline(s) == \A i \in 1..Len(s) : s[i] # "\n"

EndsWithNewline(s) == Len(s) > 0 /\ s[Len(s)] = "\n"

\* the positions of the calls of one kind
CallsOf(op) == {i \in 1..Len(calls) : calls[i].op = op}

CountOp(op) == Cardinality(CallsOf(op))

OpenSucceeded == \E i \in CallsOf("open") : calls[i].ret >= 0

OpenFailedRun == \E i \in CallsOf("open") : calls[i].ret < 0

IoctlSucceeded == \E i \in CallsOf("ioctl") : calls[i].ret >= 0

IoctlFailed == \E i \in CallsOf("ioctl") : calls[i].ret < 0

CloseFailed == \E i \in CallsOf("close") : calls[i].ret < 0

Done == pc = "done"

\* the place of a call in the order open, reset ioctl, close, result message
Rank(op) ==
    CASE op = "open" -> 1
      [] op = "ioctl" -> 2
      [] op = "close" -> 3
      [] op = "write" -> 4

(* ------------------------------- claims -------------------------------- *)

\* C1: when open() succeeded, close(fd) has been called exactly once by the
\* time main returns, whether the reset ioctl succeeded or failed; when
\* open() was not reached or failed, close is never called.
C1_CloseExactlyOnce ==
    /\ CountOp("close") <= 1
    /\ ~OpenSucceeded => CountOp("close") = 0
    /\ (Done /\ OpenSucceeded) =>
          /\ CountOp("close") = 1
          /\ handle = "closed"
          /\ \A i \in CallsOf("close") : calls[i].fd = fd

C1_Witness ==
    Done /\ OpenSucceeded /\ IoctlFailed /\ CountOp("close") = 1

\* C2: with argc # 2 main writes the usage message to stderr and returns 1,
\* and open, the reset ioctl and close are never called.
C2_UsageOnWrongArgc ==
    argc # 2 =>
        /\ CountOp("open") = 0
        /\ CountOp("ioctl") = 0
        /\ CountOp("close") = 0
        /\ handle = "none"
        /\ Done =>
              /\ exit_status = <<1>>
              /\ Len(err) > 0
              /\ Head(err) = "Usage: "
              /\ Contains(err, <<" <usb_device_path>">>)
              /\ Contains(err, argv[1])
              /\ out = <<>>

C2_Witness == Done /\ argc = 3 /\ Len(err) > 0 /\ exit_status = <<1>>

\* C3: with one argument whose open() fails, main writes an error message
\* containing the path to stderr and returns 1; the reset ioctl is never
\* issued, close is never called, and nothing is written to stdout.
C3_OpenFailure ==
    OpenFailedRun =>
        /\ CountOp("ioctl") = 0
        /\ CountOp("close") = 0
        /\ out = <<>>
        /\ Done =>
              /\ exit_status = <<1>>
              /\ Len(err) > 0
              /\ Head(err) = "Error opening device "
              /\ Contains(err, argv[2])
              /\ Contains(err, <<strerror(errno), "\n">>)

C3_Witness ==
    Done /\ OpenFailedRun /\ Len(argv[2]) = 2 /\ errno = 13 /\ Len(err) > 0

\* a run where open() and the reset ioctl both succeeded, after return
SuccessRun == Done /\ argc = 2 /\ OpenSucceeded /\ IoctlSucceeded

\* C4 (as stated): on success main returns 0, stdout holds exactly one line,
\* the confirmation containing the device path, and stderr holds nothing.
C4_Original ==
    SuccessRun =>
        /\ exit_status = <<0>>
        /\ LineCount(out) = 1
        /\ Contains(out, argv[2])
        /\ err = <<>>

\* C4 (amended): on success main returns 0, writes exactly one confirmation
\* message, newline-terminated and containing the device path, to stdout and
\* nothing to stderr; the message is exactly one line whenever the device
\* path contains no newline.
C4_SuccessPath ==
    SuccessRun =>
        /\ exit_status = <<0>>
        /\ Len(out) > 0
        /\ Head(out) = "USB device "
        /\ TokenCount(out, "USB device ") = 1
        /\ TokenCount(out, " reset successfully") = 1
        /\ Contains(out, argv[2])
        /\ EndsWithNewline(out)
        /\ NoNewline(argv[2]) => LineCount(out) = 1
        /\ err = <<>>

C4_Witness ==
    SuccessRun /\ argv[2] = <<"/", "u">> /\ LineCount(out) = 1

\* a run where open() succeeded and the reset ioctl failed, after return
ResetFailureRun == Done /\ argc = 2 /\ OpenSucceeded /\ IoctlFailed

\* C5: when open() succeeds and the reset ioctl fails, main returns 1,
\* writes the reset error message containing the device path to stderr and
\* writes no confirmation to stdout.
C5_ResetFailure ==
    ResetFailureRun =>
        /\ exit_status = <<1>>
        /\ Len(err) > 0
        /\ Head(err) = "Error resetting device "
        /\ Contains(err, argv[2])
        /\ out = <<>>

C5_Witness ==
    ResetFailureRun /\ Len(argv[2]) = 2 /\ ~CloseFailed /\ Len(err) > 0

\* C6: the exit status is 0 exactly when argc = 2, open() succeeded and the
\* reset ioctl succeeded; every other terminating run returns the same
\* status 1, whatever the cause of the failure.
C6_ExitStatus ==
    Done =>
        /\ Len(exit_status) = 1
        /\ exit_status = <<0>> <=> (argc = 2 /\ OpenSucceeded /\ IoctlSucceeded)
        /\ exit_status # <<0>> => exit_status = <<1>>

C6_Witness == ResetFailureRun /\ exit_status = <<1>> /\ CloseFailed

\* C7: when the reset ioctl fails, the error description in the "Error
\* resetting device" message is that of the errno the ioctl set, even when
\* the close() between the ioctl and the message fails.
C7_ReportsIoctlErrno ==
    ResetFailureRun =>
        err = <<"Error resetting device ">> \o argv[2]
                 \o <<": ", strerror(ioctl_errno), "\n">>

\* C8 (as stated): every terminating run writes exactly one line in total:
\* one on stdout and none on stderr on success, one on stderr and none on
\* stdout on failure; the write is the last action before exit.
C8_Original ==
    Done =>
        /\ LineCount(out) + LineCount(err) = 1
        /\ exit_status = <<0>> => (LineCount(out) = 1 /\ LineCount(err) = 0)
        /\ exit_status # <<0>> => (LineCount(err) = 1 /\ LineCount(out) = 0)
        /\ calls[Len(calls)].op = "write"

\* the argument a run's message interpolates: argv[0] in the usage message,
\* the device path in the others
Interpolated == IF argc # 2 THEN argv[1] ELSE argv[2]

\* C8 (amended): every terminating run writes exactly one newline-terminated
\* message in total: to stdout, with stderr empty, on success, and to stderr,
\* with stdout empty, on failure; the write is the last action before exit;
\* the message is exactly one line whenever the argument it interpolates
\* contains no newline.
C8_OneMessage ==
    Done =>
        /\ CountOp("write") = 1
        /\ calls[Len(calls)].op = "write"
        /\ exit_status = <<0>> =>
              (EndsWithNewline(out) /\ err = <<>> /\ calls[Len(calls)].fd = 1)
        /\ exit_status # <<0>> =>
              (EndsWithNewline(err) /\ out = <<>> /\ calls[Len(calls)].fd = 2)
        /\ NoNewline(Interpolated) => LineCount(out) + LineCount(err) = 1

C8_Witness ==
    Done /\ argc = 1 /\ NoNewline(argv[1]) /\ LineCount(err) = 1 /\ out = <<>>

\* C9: the request code passed to ioctl is the platform's USBDEVFS_RESET
\* whenever the platform defines one, and the literal 21780 only when the
\* platform does not define it.
C9_PlatformConstantPreferred ==
    \A i \in CallsOf("ioctl") :
        /\ hdr # "none" =>
              (ResetCodeOrigin(hdr) = "platform" /\ calls[i].req = val)
        /\ ResetCodeOrigin(hdr) = "literal" => hdr = "none"

\* C10: open() and the reset ioctl are each called at most once, the calls
\* occur strictly in the order open, reset ioctl, close, result message, the
\* ioctl is issued only on the descriptor a successful open() returned,
\* before it is closed, and no call uses the descriptor after close.
C10_CallOrder ==
    /\ CountOp("open") <= 1
    /\ CountOp("ioctl") <= 1
    /\ \A i, j \in 1..Len(calls) :
          i < j => Rank(calls[i].op) < Rank(calls[j].op)
    /\ \A i \in CallsOf("ioctl") \cup CallsOf("close") :
          /\ calls[i].fd >= 0
          /\ \E j \in CallsOf("open") : j < i /\ calls[j].ret = calls[i].fd
    /\ \A i \in CallsOf("ioctl") : \A k \in CallsOf("close") : i < k
    /\ \A k \in CallsOf("close") : \A i \in 1..Len(calls) :
          i > k => (calls[i].op = "write" /\ calls[i].fd \in {1, 2})
    /\ pc = "ioctl" => handle = "open"

C10_Witness ==
    Done /\ Len(calls) = 4 /\ calls[2].op = "ioctl" /\ calls[3].op = "close"

====
